---- MODULE Spec2Model ----
(***************************************************************************)
(* EphemeralLinksReuploader: a Discord bot that re-uploads links to        *)
(* short-lived CDN files as attachments.  The repository holds two         *)
(* variants of the message handler:                                        *)
(*   "multi"  - src/unnamed/part_000: per-guild allow policy kept in one   *)
(*              JSON file, slash commands, every link of a message         *)
(*   "single" - src/index.js: fixed CDN domain list, first link only,      *)
(*              cleanup by a glob sweep of temp_cdn_*                      *)
(* The variable design says which variant a behaviour runs.                *)
(*                                                                         *)
(* Handlers are async functions on one event loop: an action of this       *)
(* module is the synchronous stretch of a handler between two awaits.      *)
(* The slash-command handler contains no await, so it is one action.       *)
(*                                                                         *)
(* Text is a sequence of tokens.  Each token stands for a fixed string:    *)
(*   "H" = "http://i.4cdn.org/"   "j" = "a.jpg"   "e" = "a.exe"   " " = " " *)
(* The strings form a prefix-free code and only "H" contains "http", so    *)
(* substring search and the URL patterns act on token sequences exactly    *)
(* as they act on the strings.                                             *)
(*                                                                         *)
(* A domain is the sequence of its labels ("4cdn.org" is <<"4cdn","org">>) *)
(* and an extension the sequence <<".", name>>.  The text of a command     *)
(* option is a sequence of such tokens that may also hold spaces, upper    *)
(* case tokens, a scheme token "https://" in front and a path token "/x"   *)
(* behind.                                                                 *)
(***************************************************************************)
EXTENDS Integers, Sequences, FiniteSets, TLC

\* ------------------------------------------------------------------ bounds
NumRuns == 2
MaxWords == 3
MaxCmds == 2

Runs == 1..NumRuns
Guilds == {"g1", "g2"}

\* ------------------------------------------------------- program constants
MAX_FILE_SIZE == 10 * 1024 * 1024

DefaultDomains == << <<"4cdn", "org">> >>
DefaultExtensions ==
  << <<".", "jpg">>, <<".", "jpeg">>, <<".", "png">>, <<".", "gif">>,
     <<".", "webm">>, <<".", "mp4">> >>

\* ------------------------------------------------------------ small helpers
Min(S) == CHOOSE x \in S : \A y \in S : x <= y
Max(S) == CHOOSE x \in S : \A y \in S : x >= y

\* Array.prototype.includes
Includes(arr, x) == \E k \in 1..Len(arr) : arr[k] = x

\* Array.prototype.filter(d => d !== x)
FilterOut(arr, x) == SelectSeq(arr, LAMBDA d : d # x)

Range(s) == {s[k] : k \in 1..Len(s)}

\* ------------------------------------------------------------------- text
RECURSIVE TrimLeft(_)
TrimLeft(s) == IF s # <<>> /\ Head(s) = " " THEN TrimLeft(Tail(s)) ELSE s

RECURSIVE TrimRight(_)
TrimRight(s) ==
  IF s # <<>> /\ s[Len(s)] = " " THEN TrimRight(SubSeq(s, 1, Len(s) - 1)) ELSE s

\* String.prototype.trim
Trim(s) == TrimRight(TrimLeft(s))

\* String.prototype.indexOf, 1-based, 0 when pat does not occur
IndexOf(s, pat) ==
  LET at == {k \in 1..(Len(s) - Len(pat) + 1) : SubSeq(s, k, k + Len(pat) - 1) = pat}
  IN IF at = {} THEN 0 ELSE Min(at)

\* s.replace(pat, '') with a string pattern: the first occurrence only
ReplaceFirst(s, pat) ==
  LET k == IndexOf(s, pat)
  IN IF k = 0 THEN s ELSE SubSeq(s, 1, k - 1) \o SubSeq(s, k + Len(pat), Len(s))

\* last position of the run of non-space tokens that holds position i
RECURSIVE RunEnd(_, _)
RunEnd(s, i) == IF i < Len(s) /\ s[i + 1] # " " THEN RunEnd(s, i + 1) ELSE i

\* urlRegex = /(https?:\/\/[^\s]+)/gi : the matches at or after position i,
\* left to right, as <<first, last>> positions
RECURSIVE UrlMatches(_, _)
UrlMatches(s, i) ==
  IF i > Len(s) THEN <<>>
  ELSE IF s[i] = "H"
       THEN << <<i, RunEnd(s, i)>> >> \o UrlMatches(s, RunEnd(s, i) + 1)
       ELSE UrlMatches(s, i + 1)

\* last position of the run of path characters [\w\d\/_.-] after position i
RECURSIVE PathEnd(_, _)
PathEnd(s, i) == IF i < Len(s) /\ s[i + 1] \in {"j", "e"} THEN PathEnd(s, i + 1) ELSE i

\* CDN_REGEX of the single-link variant: scheme, optional subdomain, a CDN
\* domain, "/", then one or more path characters
RECURSIVE CdnMatches(_, _)
CdnMatches(s, i) ==
  IF i > Len(s) THEN <<>>
  ELSE IF s[i] = "H" /\ PathEnd(s, i) > i
       THEN << <<i, PathEnd(s, i)>> >> \o CdnMatches(s, PathEnd(s, i) + 1)
       ELSE CdnMatches(s, i + 1)

\* String.prototype.match with a global pattern: the matched strings
MatchedStrings(s, ranges) == [k \in 1..Len(ranges) |-> SubSeq(s, ranges[k][1], ranges[k][2])]

\* s with the positions of the given ranges removed
RemoveRanges(s, ranges) ==
  LET keep(p) == \A k \in 1..Len(ranges) : p < ranges[k][1] \/ p > ranges[k][2]
      F[p \in 0..Len(s)] ==
        IF p = 0 THEN <<>> ELSE IF keep(p) THEN Append(F[p - 1], s[p]) ELSE F[p - 1]
  IN F[Len(s)]

\* new URL(link).host as its labels: every link starts with "H"
Host(link) == <<"i", "4cdn", "org">>

\* parts.slice(-2).join('.')
RootDomain(host) == SubSeq(host, Max({1, Len(host) - 1}), Len(host))

\* path.extname(parsed.pathname): the text after the last "." of the last
\* path segment, which the link's last token decides
ExtName(link) ==
  IF link[Len(link)] = "j" THEN <<".", "jpg">>
  ELSE IF link[Len(link)] = "e" THEN <<".", "exe">>
  ELSE <<>>

\* ------------------------------------------------------------------ state
VARIABLES
  design,                \* "multi" (part_000) or "single" (index.js)
  now,                   \* Date.now(): the current millisecond
  stamped,               \* a file name was built from the current millisecond
  configFile,            \* elr_guild_configs.json: [exists, shape, guilds]
  DEFAULT_GUILD_CONFIG,  \* the module-level object (its arrays are mutable)
  cmdsLeft,              \* slash commands still to be dispatched
  lastReply,             \* the last command: [guild, cmd, arg, reply, created, writes]
  materialised,          \* per guild: the policies getGuildConfig created for it
  acked,                 \* the changes the commands reported done: [domains, exts]
  tempFiles,             \* files in the temp folder: [name, owner, size]
  webhooks,              \* per channel: the bot-owned webhooks that exist
  run                    \* per message: the handler's locals and its calls

vars == <<design, now, stamped, configFile, DEFAULT_GUILD_CONFIG, cmdsLeft,
          lastReply, materialised, acked, tempFiles, webhooks, run>>

\* the variables of the policy store
policyVars == <<configFile, DEFAULT_GUILD_CONFIG, cmdsLeft, lastReply, materialised, acked>>

\* ------------------------------------------------------------ policy store
\* const DEFAULT_GUILD_CONFIG = {...} as the module is loaded
InitialDefault ==
  [allowedDomains |-> DefaultDomains, allowedExtensions |-> DefaultExtensions]

EmptyGuilds == [g \in {} |-> InitialDefault]

\* a variant that answers from the document as it was when the module was loaded
loadGlobalConfigStale(file) == EmptyGuilds

\* what the file can hold: "doc" is JSON with a guilds map, "garbage" does
\* not parse, "noguilds" is JSON without a guilds map such as {}
NoFile == [exists |-> FALSE, shape |-> "doc", guilds |-> EmptyGuilds]

\* loadGlobalConfig: the guilds map of the document returned for the file as
\* it is. An absent file gives initialData, a parse error gives the fallback
\* { guilds: {} }; JSON without a guilds map is returned as parsed, see
\* HasGuildMap.
loadGlobalConfig(file) ==
  IF file.exists /\ file.shape = "doc" THEN file.guilds ELSE EmptyGuilds

\* whether the document loadGlobalConfig returns has a guilds map: when it
\* has none, globalConfig.guilds[guildId] in getGuildConfig throws a TypeError
HasGuildMap(file) == ~file.exists \/ file.shape \in {"doc", "garbage"}

\* saveGlobalConfig: the file after writing the document
saveGlobalConfig(guilds) == [exists |-> TRUE, shape |-> "doc", guilds |-> guilds]

\* getGuildConfig: whether the guild's entry is created by this call
IsNewGuild(guilds, guildId) == guildId \notin DOMAIN guilds

\* getGuildConfig: the document after the call. A created entry is
\* { ...DEFAULT_GUILD_CONFIG }: its two arrays ARE the default's arrays.
getGuildConfig(guilds, guildId) ==
  IF IsNewGuild(guilds, guildId)
  THEN (guildId :> DEFAULT_GUILD_CONFIG) @@ guilds
  ELSE guilds

\* String.prototype.toLowerCase, token by token
LowerToken(tok) ==
  CASE tok = "EVIL" -> "evil"
    [] tok = "COM" -> "com"
    [] tok = "JPG" -> "jpg"
    [] tok = "HTTPS://" -> "https://"
    [] OTHER -> tok

toLowerCase(s) == [k \in 1..Len(s) |-> LowerToken(s[k])]

\* interaction.options.getString('domain').toLowerCase().trim()
DomainOption(raw) == Trim(toLowerCase(raw))

\* interaction.options.getString('extension').toLowerCase().trim(), with a
\* "." put in front unless it starts with one
ExtensionOption(raw) ==
  LET ext == Trim(toLowerCase(raw))
  IN IF ext # <<>> /\ Head(ext) = "." THEN ext ELSE <<".">> \o ext

\* the value the switch works with
OptionValue(commandName, raw) ==
  CASE commandName \in {"allowdomain", "removedomain"} -> DomainOption(raw)
    [] commandName \in {"allowext", "removeext"} -> ExtensionOption(raw)
    [] OTHER -> raw

NoReply == [guild |-> "", cmd |-> "", arg |-> <<>>, reply |-> "", created |-> FALSE, writes |-> 0]

\* the values the slash-command options are drawn from
DomainArgs == { <<"4cdn", "org">>, <<"evil", "com">> }
ExtArgs == { <<".", "jpg">>, <<".", "exe">> }
Commands ==
  ({"allowdomain", "removedomain"} \X DomainArgs)
    \cup ({"allowext", "removeext"} \X ExtArgs)
    \cup {<<"listdomains", <<>> >>, <<"listext", <<>> >>}

\* a variant of the switch that takes every add and remove for a change
CommandChangesUnchecked(guildConfig, commandName, arg) ==
  commandName \in {"allowdomain", "removedomain", "allowext", "removeext"}

\* the switch: whether the command changes the guild's list
CommandChanges(guildConfig, commandName, arg) ==
  CASE commandName = "allowdomain" -> ~Includes(guildConfig.allowedDomains, arg)
    [] commandName = "removedomain" ->
         Len(FilterOut(guildConfig.allowedDomains, arg)) < Len(guildConfig.allowedDomains)
    [] commandName = "allowext" -> ~Includes(guildConfig.allowedExtensions, arg)
    [] commandName = "removeext" ->
         Len(FilterOut(guildConfig.allowedExtensions, arg)) < Len(guildConfig.allowedExtensions)
    [] OTHER -> FALSE

\* the switch: the guild's config object after the command
CommandConfig(guildConfig, commandName, arg) ==
  CASE commandName = "allowdomain" /\ ~Includes(guildConfig.allowedDomains, arg) ->
         [guildConfig EXCEPT !.allowedDomains = Append(@, arg)]
    [] commandName = "removedomain" ->
         [guildConfig EXCEPT !.allowedDomains = FilterOut(@, arg)]
    [] commandName = "allowext" /\ ~Includes(guildConfig.allowedExtensions, arg) ->
         [guildConfig EXCEPT !.allowedExtensions = Append(@, arg)]
    [] commandName = "removeext" ->
         [guildConfig EXCEPT !.allowedExtensions = FilterOut(@, arg)]
    [] OTHER -> guildConfig

\* the switch: the reply sent
CommandReply(guildConfig, commandName, arg) ==
  CASE commandName \in {"allowdomain", "allowext"} ->
         IF CommandChanges(guildConfig, commandName, arg) THEN "added" ELSE "already allowed"
    [] commandName \in {"removedomain", "removeext"} ->
         IF CommandChanges(guildConfig, commandName, arg)
         THEN "removed" ELSE "was not in the list"
    [] OTHER -> "list"

\* the module-level default after the command: push() on the array of a
\* guild entry created by this call is push() on the default's own array,
\* filter() builds a new array and leaves the default alone
DefaultAfterCommand(isNew, guildConfig, commandName, arg) ==
  IF isNew /\ commandName \in {"allowdomain", "allowext"}
  THEN CommandConfig(guildConfig, commandName, arg)
  ELSE DEFAULT_GUILD_CONFIG

\* the calls of saveGlobalConfig one invocation makes: one in getGuildConfig
\* when it creates the entry, one in the switch when the list changed
SaveCalls(isNew, changed) == (IF isNew THEN 1 ELSE 0) + (IF changed THEN 1 ELSE 0)

\* the record of what the invoker was told: a reply "added" or "removed"
\* replaces what was reported before for the same guild and value
Acknowledge(guildId, commandName, arg, reply) ==
  LET entry == <<guildId, arg, reply>>
      others(S) == {e \in S : ~(e[1] = guildId /\ e[2] = arg)}
  IN IF reply \notin {"added", "removed"} THEN acked
     ELSE IF commandName \in {"allowdomain", "removedomain"}
          THEN [acked EXCEPT !.domains = others(@) \cup {entry}]
          ELSE [acked EXCEPT !.exts = others(@) \cup {entry}]

\* client.on('interactionCreate'): the whole handler, it never awaits
interactionCreate(guildId, commandName, raw) ==
  /\ design = "multi"
  /\ IF ~HasGuildMap(configFile)
     THEN \* getGuildConfig throws: the handler's promise rejects, no reply is sent
          /\ lastReply' = [guild |-> guildId, cmd |-> commandName, arg |-> raw,
                           reply |-> "raised", created |-> FALSE, writes |-> 0]
          /\ UNCHANGED <<configFile, DEFAULT_GUILD_CONFIG, materialised, acked>>
     ELSE
     LET arg == OptionValue(commandName, raw)
         loaded == loadGlobalConfig(configFile)
         isNew == IsNewGuild(loaded, guildId)
         guilds == getGuildConfig(loaded, guildId)
         guildConfig == guilds[guildId]
         changed == CommandChanges(guildConfig, commandName, arg)
     IN /\ configFile' =
             IF changed
             THEN saveGlobalConfig(
                    [guilds EXCEPT ![guildId] = CommandConfig(guildConfig, commandName, arg)])
             ELSE IF isNew THEN saveGlobalConfig(guilds) ELSE configFile
        /\ DEFAULT_GUILD_CONFIG' = DefaultAfterCommand(isNew, guildConfig, commandName, arg)
        /\ materialised' =
             IF isNew THEN [materialised EXCEPT ![guildId] = @ \cup {guildConfig}]
             ELSE materialised
        /\ lastReply' = [guild |-> guildId, cmd |-> commandName, arg |-> arg,
                         reply |-> CommandReply(guildConfig, commandName, arg),
                         created |-> isNew,
                         writes |-> SaveCalls(isNew, changed)]
        /\ acked' = Acknowledge(guildId, commandName, arg,
                                CommandReply(guildConfig, commandName, arg))
  /\ UNCHANGED <<design, now, stamped, tempFiles, webhooks, run>>

\* one of a bounded number of commands is dispatched
Command(guildId, commandName, raw) ==
  /\ cmdsLeft > 0
  /\ cmdsLeft' = cmdsLeft - 1
  /\ interactionCreate(guildId, commandName, raw)

\* --------------------------------------------------------- message handler
NoGuild == "none"
NoPolicy == [allowedDomains |-> <<>>, allowedExtensions |-> <<>>]
NoPath == [guild |-> "", t |-> 0 - 1, ext |-> <<>>]
NoProbe == [idx |-> 0, kind |-> "", len |-> 0]
NoSend == [called |-> FALSE, content |-> <<>>, files |-> <<>>, sizes |-> <<>>]

\* the handler's state as a message arrives
Arrived(guild, bot, content) ==
  [guild |-> guild, bot |-> bot, content |-> content,
   pc |-> "arrived",
   cfgAlias |-> FALSE,       \* guildConfig's arrays are the default's arrays
   cfgOwn |-> NoPolicy,      \* guildConfig with the lists it had when it was loaded
   allLinks |-> <<>>, idx |-> 0,
   newContent |-> <<>>, newFiles |-> <<>>, filesToDelete |-> <<>>,
   contentLength |-> 0, tempFilename |-> NoPath, opened |-> FALSE,
   probe |-> NoProbe,        \* the answer to the HEAD request last settled, until a GET settles
   heads |-> {}, gets |-> {}, streams |-> {},     \* candidates probed, fetched, staged
   outcome |-> <<>>,                               \* per candidate, how it ended
   deleteResult |-> "none",                        \* message.delete(): none, pending, ok, failed
   sendCall |-> NoSend,                            \* webhook.send(...) as it was called
   echoed |-> FALSE]                               \* the message it sent has come back as an event

\* the guildConfig object a run holds
GuildConfigOf(rec) == IF rec.cfgAlias THEN DEFAULT_GUILD_CONFIG ELSE rec.cfgOwn

\* allowedDomains.includes(host) || allowedDomains.includes(rootDomain)
DomainAllowed(cfg, link) ==
  \/ Includes(cfg.allowedDomains, Host(link))
  \/ Includes(cfg.allowedDomains, RootDomain(Host(link)))

\* a variant without the extension check
ExtensionAllowedAlways(cfg, link) == TRUE

\* allowedExtensions.includes(ext)
ExtensionAllowed(cfg, link) == Includes(cfg.allowedExtensions, ExtName(link))

PolicyAllows(cfg, link) == DomainAllowed(cfg, link) /\ ExtensionAllowed(cfg, link)

\* the first candidate at or after i that passes both policy checks
\* (Len + 1 when none does): the ones before it hit "continue"
NextAllowed(cfg, links, i) ==
  Min({k \in i..Len(links) : PolicyAllows(cfg, links[k])} \cup {Len(links) + 1})

\* the for-loop resumed at candidate i, up to its next await: the HEAD
\* request of the next allowed candidate, or message.delete() after the loop
LoopFrom(rec, cfg, i) ==
  LET links == rec.allLinks
      k == NextAllowed(cfg, links, i)
      outc == [j \in 1..Len(links) |->
                 IF j >= i /\ j < k THEN "rejected" ELSE rec.outcome[j]]
      base == [rec EXCEPT !.outcome = outc, !.idx = k, !.contentLength = 0,
                          !.tempFilename = NoPath, !.opened = FALSE]
  IN IF k <= Len(links)
     THEN [base EXCEPT !.pc = "head", !.heads = @ \cup {k}]
     ELSE [base EXCEPT !.pc = "delete", !.deleteResult = "pending"]

\* a variant whose catch leaves the loop: the republish try follows at once
DiscardAndBreak(rec, cfg) ==
  [rec EXCEPT !.outcome[rec.idx] = "discarded", !.pc = "delete",
              !.deleteResult = "pending"]

\* catch (error) of the per-link try: the candidate is dropped, the loop goes on
Discard(rec, cfg) ==
  LoopFrom([rec EXCEPT !.outcome[rec.idx] = "discarded"], cfg, rec.idx + 1)

\* a variant whose catch drops the link and goes on to the republish step
AbortLinkOnly(rec) ==
  [rec EXCEPT !.outcome[rec.idx] = "discarded", !.pc = "delete",
              !.deleteResult = "pending"]

\* catch (error) of the single-link handler: the run is over
Abort(rec) == [rec EXCEPT !.outcome[rec.idx] = "discarded", !.pc = "done"]

\* a variant that unlinks the attached files only
UnlinkAttached(files, rec) == {f \in files : f.name \notin Range(rec.newFiles)}

\* finally of the multi-link handler: unlink every registered path
UnlinkRegistered(files, rec) == {f \in files : f.name \notin Range(rec.filesToDelete)}

\* finally of the single-link handler: unlink everything glob 'temp_cdn_*' finds
UnlinkGlob(files, rec) == {}

Cleanup(files, rec) ==
  IF design = "multi" THEN UnlinkRegistered(files, rec) ELSE UnlinkGlob(files, rec)

\* a failure inside a candidate, the run's locals being rec: next state of
\* the run and of the temp folder
FailWith(r, rec) ==
  IF design = "multi"
  THEN /\ run' = [run EXCEPT ![r] = Discard(rec, GuildConfigOf(rec))]
       /\ tempFiles' = tempFiles
  ELSE /\ run' = [run EXCEPT ![r] = Abort(rec)]
       /\ tempFiles' = Cleanup(tempFiles, rec)

Fail(r) == FailWith(r, run[r])

\* a variant of the guard that lets messages of bots through
IgnoredDirectOnly(rec) == rec.guild = NoGuild

\* if (!message.guild || message.author.bot) return
Ignored(rec) == rec.guild = NoGuild \/ rec.bot

\* client.on('messageCreate') of part_000 up to its first await
MessageCreate(r) ==
  /\ design = "multi"
  /\ run[r].pc = "arrived"
  /\ IF Ignored(run[r])
     THEN /\ run' = [run EXCEPT ![r].pc = "done"]
          /\ UNCHANGED <<configFile, materialised>>
     ELSE IF ~HasGuildMap(configFile)
     THEN \* getGuildConfig throws outside any try: the handler's promise rejects
          /\ run' = [run EXCEPT ![r].pc = "raised"]
          /\ UNCHANGED <<configFile, materialised>>
     ELSE LET loaded == loadGlobalConfig(configFile)
              isNew == IsNewGuild(loaded, run[r].guild)
              guilds == getGuildConfig(loaded, run[r].guild)
              matches == UrlMatches(run[r].content, 1)
              links == MatchedStrings(run[r].content, matches)
              rec == [run[r] EXCEPT
                        !.cfgAlias = isNew,
                        !.cfgOwn = guilds[run[r].guild],
                        !.allLinks = links,
                        !.outcome = [j \in 1..Len(links) |-> "pending"],
                        !.newContent = run[r].content]
          IN /\ configFile' = IF isNew THEN saveGlobalConfig(guilds) ELSE configFile
             /\ materialised' =
                  IF isNew
                  THEN [materialised EXCEPT ![run[r].guild] = @ \cup {DEFAULT_GUILD_CONFIG}]
                  ELSE materialised
             /\ IF links = <<>>
                THEN run' = [run EXCEPT ![r] = [rec EXCEPT !.pc = "done"]]
                ELSE /\ run' = [run EXCEPT ![r] = LoopFrom(rec, GuildConfigOf(rec), 1)]
  /\ UNCHANGED <<design, now, stamped, DEFAULT_GUILD_CONFIG, cmdsLeft, lastReply,
                 acked, tempFiles, webhooks>>

\* client.on('messageCreate') of index.js up to its first await
SingleMessageCreate(r) ==
  /\ design = "single"
  /\ run[r].pc = "arrived"
  /\ LET matches == CdnMatches(run[r].content, 1)
         links == MatchedStrings(run[r].content, matches)
         rec == [run[r] EXCEPT !.allLinks = links,
                               !.outcome = [j \in 1..Len(links) |-> "pending"]]
     IN IF Ignored(run[r]) \/ links = <<>>
        THEN /\ run' = [run EXCEPT ![r] =
                          [(IF Ignored(run[r]) THEN run[r] ELSE rec)
                             EXCEPT !.pc = "done"]]
             /\ tempFiles' = Cleanup(tempFiles, run[r])
            
        ELSE /\ run' = [run EXCEPT ![r] =
                          [rec EXCEPT !.idx = 1, !.pc = "head", !.heads = {1}]]
             /\ tempFiles' = tempFiles
  /\ UNCHANGED <<design, now, stamped, policyVars, webhooks>>

\* what the network can answer
Sizes == {MAX_FILE_SIZE, MAX_FILE_SIZE + 1}
HeadResponses ==
  {[kind |-> "throw", len |-> 0], [kind |-> "nolength", len |-> 0],
   [kind |-> "notok", len |-> MAX_FILE_SIZE + 1]}
    \cup {[kind |-> "ok", len |-> n] : n \in Sizes}
GetResponses == {"ok", "notok", "throw"}

\* a variant that reads the header whether or not headResp.ok
ContentLengthOfAnyStatus(resp) == resp.len

\* contentLength after the HEAD try/catch:
\* Number(headResp.headers.get('content-length')) || 0 when headResp.ok, else 0
ContentLengthOf(resp) == IF resp.kind = "ok" THEN resp.len ELSE 0

\* if (contentLength > MAX_FILE_SIZE) throw
ProbeTooLarge(contentLength) == contentLength > MAX_FILE_SIZE

\* a variant without the second size check
FileTooLargeNever(size) == FALSE

\* if (fileStats.size > MAX_FILE_SIZE) throw
FileTooLarge(size) == size > MAX_FILE_SIZE

\* the temp file name: temp_cdn_${guildId}_${Date.now()}${ext} in part_000,
\* temp_cdn_${Date.now()}${urlExtension} in index.js
TempFilename(rec) ==
  [guild |-> IF design = "multi" THEN rec.guild ELSE "",
   t |-> now,
   ext |-> ExtName(rec.allLinks[rec.idx])]

Exists(files, name) == \E f \in files : f.name = name

\* the HEAD request of the current candidate has been answered
HeadDone(r) ==
  /\ run[r].pc = "head"
  /\ \E resp \in HeadResponses :
       LET rec == [run[r] EXCEPT !.probe = [idx |-> run[r].idx, kind |-> resp.kind,
                                            len |-> resp.len]]
       IN IF ProbeTooLarge(ContentLengthOf(resp))
          THEN FailWith(r, rec)
          ELSE /\ run' = [run EXCEPT ![r] =
                            [rec EXCEPT !.contentLength = ContentLengthOf(resp),
                                        !.pc = "get", !.gets = @ \cup {run[r].idx}]]
               /\ tempFiles' = tempFiles
  /\ UNCHANGED <<design, now, stamped, policyVars, webhooks>>

\* the GET request has been answered; on success the path is registered (part_000)
\* and the write stream is opened with flags 'wx'
GetDone(r) ==
  /\ run[r].pc = "get"
  /\ \E resp \in GetResponses :
       IF resp # "ok"
       THEN FailWith(r, [run[r] EXCEPT !.probe = NoProbe]) /\ stamped' = stamped
       ELSE LET name == TempFilename(run[r])
                rec == [run[r] EXCEPT
                          !.probe = NoProbe,
                          !.tempFilename = name,
                          !.filesToDelete = IF design = "multi" THEN Append(@, name) ELSE @,
                          !.streams = @ \cup {run[r].idx}, !.contentLength = 0,
                          !.pc = "write"]
            IN /\ stamped' = TRUE
              
               /\ IF Exists(tempFiles, name)
                  THEN /\ run' = [run EXCEPT ![r] = [rec EXCEPT !.opened = FALSE]]
                       /\ tempFiles' = tempFiles
                  ELSE /\ run' = [run EXCEPT ![r] = [rec EXCEPT !.opened = TRUE]]
                       /\ \E size \in Sizes :
                            tempFiles' = tempFiles \cup
                              {[name |-> name, owner |-> r, size |-> size]}
  /\ UNCHANGED <<design, now, policyVars, webhooks>>

\* the staged candidate is taken into the message: part_000 lines 345-349
Include(rec) ==
  [rec EXCEPT !.newContent = Trim(ReplaceFirst(@, rec.allLinks[rec.idx])),
              !.newFiles = Append(@, rec.tempFilename),
              !.outcome[rec.idx] = "included"]

\* index.js lines 114-117: every CDN match is cut from the content
SingleInclude(rec) ==
  [rec EXCEPT !.newContent = Trim(RemoveRanges(rec.content, CdnMatches(rec.content, 1))),
              !.newFiles = <<rec.tempFilename>>,
              !.outcome[rec.idx] = "included",
              !.pc = "delete", !.deleteResult = "pending"]

\* await finished(...) has settled; then statSync and the second size check
WriteDone(r) ==
  /\ run[r].pc = "write"
  /\ IF ~run[r].opened
     THEN Fail(r)
     ELSE \E written \in BOOLEAN :
            IF ~written THEN Fail(r)
            ELSE IF ~Exists(tempFiles, run[r].tempFilename) THEN Fail(r)
            ELSE LET f == CHOOSE f \in tempFiles : f.name = run[r].tempFilename
                 IN IF FileTooLarge(f.size) THEN Fail(r)
                    ELSE /\ run' = [run EXCEPT ![r] =
                                      IF design = "multi"
                                      THEN LoopFrom(Include(run[r]), GuildConfigOf(run[r]),
                                                    run[r].idx + 1)
                                      ELSE SingleInclude(run[r])]
                         /\ tempFiles' = tempFiles
  /\ UNCHANGED <<design, now, stamped, policyVars, webhooks>>

\* the millisecond in which the run last built a temp file name has passed
StampPassed(rec) ==
  /\ \A k \in 1..Len(rec.filesToDelete) : rec.filesToDelete[k].t < now
  /\ rec.tempFilename.t < now

\* a variant without the .catch on message.delete(): a rejection ends the run
AfterDeleteEscalate(rec, ok) ==
  IF ok THEN [rec EXCEPT !.deleteResult = "ok", !.pc = "fetchWebhooks"]
  ELSE [rec EXCEPT !.deleteResult = "failed", !.pc = "done"]

\* await message.delete().catch(...): whether it resolved or rejected, the
\* handler goes on to getOrCreateChannelWebhook
AfterDelete(rec, ok) ==
  [rec EXCEPT !.deleteResult = IF ok THEN "ok" ELSE "failed",
              !.pc = "fetchWebhooks"]

\* message.delete() has settled; a rejection is caught and logged. The
\* answer of the platform arrives in a later millisecond than the one in
\* which the request was made.
DeleteDone(r) ==
  /\ run[r].pc = "delete"
  /\ StampPassed(run[r])
  /\ \E ok \in BOOLEAN :
       /\ run' = [run EXCEPT ![r] = AfterDelete(run[r], ok)]
       /\ tempFiles' = IF run'[r].pc = "done" THEN Cleanup(tempFiles, run[r]) ELSE tempFiles
  /\ UNCHANGED <<design, now, stamped, policyVars, webhooks>>

\* the size of the file a path names as the call is made, -1 when there is none
SizeOnDisk(files, name) ==
  IF Exists(files, name) THEN (CHOOSE f \in files : f.name = name).size ELSE 0 - 1

\* webhook.send({..., content: newContent, files: newFiles}) is called
CallSend(rec) ==
  [rec EXCEPT !.pc = "send",
              !.sendCall = [called |-> TRUE, content |-> rec.newContent,
                            files |-> rec.newFiles,
                            sizes |-> [k \in 1..Len(rec.newFiles) |->
                                         SizeOnDisk(tempFiles, rec.newFiles[k])]]]

\* catch and finally of the republish try: the run ends
Finish(r, rec) ==
  /\ run' = [run EXCEPT ![r] = [rec EXCEPT !.pc = "done"]]
  /\ tempFiles' = Cleanup(tempFiles, rec)

\* getOrCreateChannelWebhook: channel.fetchWebhooks() has settled
FetchWebhooksDone(r) ==
  /\ run[r].pc = "fetchWebhooks"
  /\ \E ok \in BOOLEAN :
       IF ~ok THEN Finish(r, run[r])
       ELSE /\ run' = [run EXCEPT ![r] =
                         IF webhooks[run[r].guild] > 0 THEN CallSend(run[r])
                         ELSE [run[r] EXCEPT !.pc = "createWebhook"]]
            /\ tempFiles' = tempFiles
  /\ UNCHANGED <<design, now, stamped, policyVars, webhooks>>

\* getOrCreateChannelWebhook: channel.createWebhook() has settled
CreateWebhookDone(r) ==
  /\ run[r].pc = "createWebhook"
  /\ \E ok \in BOOLEAN :
       IF ~ok THEN Finish(r, run[r]) /\ webhooks' = webhooks
       ELSE /\ webhooks' = [webhooks EXCEPT ![run[r].guild] = @ + 1]
            /\ run' = [run EXCEPT ![r] = CallSend(run[r])]
            /\ tempFiles' = tempFiles
  /\ UNCHANGED <<design, now, stamped, policyVars>>

\* webhook.send() has settled; finally runs
SendDone(r) ==
  /\ run[r].pc = "send"
  /\ Finish(r, run[r])
  /\ UNCHANGED <<design, now, stamped, policyVars, webhooks>>

\* the message webhook.send posted comes back as a messageCreate event of
\* its own: its author is the webhook, a bot, its content what was sent
WebhookMessage(r, q) ==
  /\ run[r].sendCall.called
  /\ ~run[r].echoed
  /\ q # r
  /\ run[q].pc = "done" /\ run[q].bot /\ run[q].content = <<>>
  /\ run' = [run EXCEPT ![r].echoed = TRUE,
                         ![q] = Arrived(run[r].guild, TRUE, run[r].sendCall.content)]
  /\ UNCHANGED <<design, now, stamped, policyVars, tempFiles, webhooks>>

\* the clock moves on to the next millisecond; a millisecond no file name
\* was built from passes unseen
Tick ==
  /\ stamped
  /\ now' = now + 1
  /\ stamped' = FALSE
  /\ UNCHANGED <<design, policyVars, tempFiles, webhooks, run>>

\* ------------------------------------------------------------- behaviours
InitRest ==
  /\ now = 0 /\ stamped = FALSE
  /\ DEFAULT_GUILD_CONFIG = InitialDefault
  /\ lastReply = NoReply
  /\ acked = [domains |-> {}, exts |-> {}]
  /\ materialised = [g \in Guilds |-> {}]
  /\ tempFiles = {}
  /\ webhooks = [g \in Guilds |-> 0]

\* the bot starts in a folder without a config file
InitStore == InitRest /\ configFile = NoFile

\* a message whose handler has already returned
Handled == [Arrived("g1", TRUE, <<>>) EXCEPT !.pc = "done"]

\* the steps both variants of the handler share
Pipeline ==
  \/ \E r \in Runs : HeadDone(r)
  \/ \E r \in Runs : GetDone(r)
  \/ \E r \in Runs : WriteDone(r)
  \/ \E r \in Runs : DeleteDone(r)
  \/ \E r \in Runs : FetchWebhooksDone(r)
  \/ \E r \in Runs : CreateWebhookDone(r)
  \/ \E r \in Runs : SendDone(r)
  \/ Tick

\* Spec: NumRuns messages of one channel handled concurrently, by either
\* variant of the handler
SampleContents == { <<"H", "j", "e">>, <<"H", "j", "e", " ", "H", "j">> }

Init ==
  /\ InitStore
  /\ design \in {"multi", "single"}
  /\ cmdsLeft = 0
  /\ run \in [Runs -> {Arrived("g1", FALSE, c) : c \in SampleContents}]

Next ==
  \/ \E r \in Runs : MessageCreate(r)
  \/ \E r \in Runs : SingleMessageCreate(r)
  \/ Pipeline

Spec == Init /\ [][Next]_vars

\* SpecText: one message of up to MaxWords words, by either variant
Words == { <<"H", "j">>, <<"H", "j", "e">>, <<"e">> }

RECURSIVE Texts(_)
Texts(n) ==
  IF n = 1 THEN Words
  ELSE {t \o <<" ">> \o w : t \in Texts(n - 1), w \in Words}

AllContents == UNION {Texts(n) : n \in 1..MaxWords}

InitText ==
  /\ InitStore
  /\ design \in {"multi", "single"}
  /\ cmdsLeft = 0
  /\ \E g \in {"g1", NoGuild}, bot \in BOOLEAN, c \in AllContents :
       run = [r \in Runs |-> IF r = 1 THEN Arrived(g, bot, c) ELSE Handled]

SpecText == InitText /\ [][Next]_vars

\* SpecPolicy: the multi-link variant with up to MaxCmds slash commands
\* dispatched before, while and after one message is handled
PolicyContents == { <<"H", "j", "e", " ", "H", "j">>, <<"H", "j", " ", "H", "j", "e">> }

InitPolicy ==
  /\ InitStore
  /\ design = "multi"
  /\ cmdsLeft = MaxCmds
  /\ \E c \in PolicyContents :
       run = [r \in Runs |-> IF r = 1 THEN Arrived("g1", FALSE, c) ELSE Handled]

NextPolicy ==
  \/ \E r \in Runs : MessageCreate(r)
  \/ Pipeline
  \/ \E g \in Guilds, c \in Commands : Command(g, c[1], c[2])

SpecPolicy == InitPolicy /\ [][NextPolicy]_vars

\* the event loop runs every handler that was dispatched and resumes every
\* handler whose await has settled; when no event is left the bot sits idle
SpecPolicyFair == SpecPolicy /\ WF_vars(NextPolicy)

\* SpecEcho: one message of a user, by either variant, and the messages the
\* bot's own webhook posts coming back as events
InitEcho ==
  /\ InitStore
  /\ design \in {"multi", "single"}
  /\ cmdsLeft = 0
  /\ \E c \in AllContents :
       run = [r \in Runs |-> IF r = 1 THEN Arrived("g1", FALSE, c) ELSE Handled]

NextEcho ==
  \/ Next
  \/ \E r, q \in Runs : WebhookMessage(r, q)

SpecEcho == InitEcho /\ [][NextEcho]_vars

\* SpecFile: the multi-link variant started on a config file in any state,
\* with one message and up to MaxCmds slash commands
CustomPolicy ==
  [allowedDomains |-> << <<"evil", "com">> >>, allowedExtensions |-> << <<".", "jpg">> >>]

FileStates ==
  {NoFile,
   [exists |-> TRUE, shape |-> "garbage", guilds |-> EmptyGuilds],
   [exists |-> TRUE, shape |-> "noguilds", guilds |-> EmptyGuilds],
   saveGlobalConfig(EmptyGuilds),
   saveGlobalConfig("g1" :> CustomPolicy),
   saveGlobalConfig("g2" :> CustomPolicy)}

InitFile ==
  /\ InitRest
  /\ configFile \in FileStates
  /\ design = "multi"
  /\ cmdsLeft = MaxCmds
  /\ run = [r \in Runs |->
              IF r = 1 THEN Arrived("g1", FALSE, <<"H", "j", "e", " ", "H", "j">>)
              ELSE Handled]

SpecFile == InitFile /\ [][NextPolicy]_vars

\* SpecArgs: up to MaxCmds slash commands whose options are typed freely
RawDomainArgs ==
  { <<"evil", "com">>, <<" ", "EVIL", "COM", " ">>,
    <<"https://", "evil", "com">>, <<"evil", "com", "/x">> }

RawExtArgs == { <<".", "exe">>, <<"JPG">>, <<" ", ".", "JPG">> }

RawCommands ==
  ({"allowdomain", "removedomain"} \X RawDomainArgs)
    \cup ({"allowext", "removeext"} \X RawExtArgs)
    \cup {<<"listdomains", <<>> >>, <<"listext", <<>> >>}

InitArgs ==
  /\ InitStore
  /\ design = "multi"
  /\ cmdsLeft = MaxCmds
  /\ run = [r \in Runs |-> Handled]

NextArgs == \E g \in Guilds, c \in RawCommands : Command(g, c[1], c[2])

SpecArgs == InitArgs /\ [][NextArgs]_vars

\* ------------------------------------------------------------------ claims
\* the for-loop of the multi-link handler has ended
LoopOver(rec) ==
  \/ rec.pc \in {"delete", "fetchWebhooks", "createWebhook", "send"}
  \/ rec.pc = "done" /\ rec.allLinks # <<>>

\* the candidates a run took into the message
Included(rec) == {i \in 1..Len(rec.allLinks) : rec.outcome[i] = "included"}

\* the requests and staging writes a run has made, by candidate
Contacted(rec) == rec.heads \cup rec.gets \cup rec.streams

\* C1: when the loop of a multi-link run ends with no candidate staged, the
\* run deletes nothing and sends nothing: message.delete() is not called and
\* webhook.send is not called.
C1_NothingStagedNothingTouched ==
  \A r \in Runs :
    (design = "multi" /\ LoopOver(run[r]) /\ run[r].newFiles = <<>>)
      => (run[r].deleteResult = "none" /\ ~run[r].sendCall.called)

\* the policy of C2 read from the lists themselves
C2_Disallowed(cfg, link) ==
  \/ ~(\E k \in 1..Len(cfg.allowedDomains) :
         cfg.allowedDomains[k] \in {Host(link), RootDomain(Host(link))})
  \/ ~(\E k \in 1..Len(cfg.allowedExtensions) :
         cfg.allowedExtensions[k] = ExtName(link))

C3_NoTempFileLeft ==
  \A r \in Runs :
    /\ run[r].pc = "done" => ~(\E f \in tempFiles : f.owner = r)
    /\ design = "multi" =>
         \A f \in tempFiles : f.owner = r => f.name \in Range(run[r].filesToDelete)

\* a finished run that had staged a file for a candidate it then dropped
C3_Witness ==
  \E r \in Runs : \E i \in run[r].streams :
    /\ run[r].pc = "done"
    /\ run[r].outcome[i] = "discarded"
    /\ run[r].opened

\* C4: in the multi-link handler no file of more than MAX_FILE_SIZE bytes is
\* in a run's attachment list, before or as webhook.send is called.
C4_AttachmentsWithinLimit ==
  \A r \in Runs :
    design = "multi" =>
      /\ \A k \in 1..Len(run[r].newFiles) :
           SizeOnDisk(tempFiles, run[r].newFiles[k]) <= MAX_FILE_SIZE
      /\ \A k \in 1..Len(run[r].sendCall.sizes) :
           run[r].sendCall.sizes[k] <= MAX_FILE_SIZE

\* a run sent a file of exactly MAX_FILE_SIZE bytes while a run dropped a
\* candidate it had staged
C4_Witness ==
  /\ design = "multi"
  /\ \E r \in Runs :
       /\ run[r].sendCall.called
       /\ \E k \in 1..Len(run[r].sendCall.sizes) :
            run[r].sendCall.sizes[k] = MAX_FILE_SIZE
  /\ \E r \in Runs : \E i \in run[r].streams :
       run[r].outcome[i] = "discarded" /\ run[r].pc # "write"

\* C5: a channel never has more than one webhook of the bot.
C5_OneWebhookPerChannel == \A g \in Guilds : webhooks[g] <= 1

\* C6: every registered path of a run that names a file on disk names a file
\* the run created, and every path in a run's attachment list names a file
\* on disk from the end of staging until webhook.send has been called.
C6_OnlyOwnFiles ==
  \A r \in Runs :
    /\ \A k \in 1..Len(run[r].filesToDelete) : \A f \in tempFiles :
         f.name = run[r].filesToDelete[k] => f.owner = r
    /\ run[r].pc \in {"delete", "fetchWebhooks", "createWebhook"} =>
         \A k \in 1..Len(run[r].newFiles) : Exists(tempFiles, run[r].newFiles[k])
    /\ \A k \in 1..Len(run[r].sendCall.sizes) : run[r].sendCall.sizes[k] >= 0

\* the matches of the included candidates, in order
IncludedRanges(rec) ==
  LET m == UrlMatches(rec.content, 1)
      F[k \in 0..Len(m)] ==
        IF k = 0 THEN <<>>
        ELSE IF rec.outcome[k] = "included" THEN Append(F[k - 1], m[k]) ELSE F[k - 1]
  IN F[Len(m)]

\* C7: the content a multi-link run sends is the original content with the
\* matched occurrence of every included link cut out, trimmed, and nothing
\* else changed.
C7_ContentIsOriginalMinusStaged ==
  \A r \in Runs :
    (design = "multi" /\ run[r].sendCall.called) =>
      run[r].sendCall.content =
        Trim(RemoveRanges(run[r].content, IncludedRanges(run[r])))

\* C8: after the loop of a multi-link run every candidate has been handled
\* (rejected by the policy, or probed and then dropped or included), whatever
\* happened to the candidates before it, and the attachment list holds one
\* file per included candidate, as does the send call.
C8_FailureDoesNotStopLoop ==
  \A r \in Runs :
    (design = "multi" /\ LoopOver(run[r])) =>
      /\ \A i \in 1..Len(run[r].allLinks) :
           /\ run[r].outcome[i] \in {"rejected", "discarded", "included"}
           /\ run[r].outcome[i] # "rejected" => i \in run[r].heads
      /\ Len(run[r].newFiles) = Cardinality(Included(run[r]))
      /\ run[r].sendCall.called =>
           /\ run[r].sendCall.files = run[r].newFiles
           /\ Len(run[r].sendCall.files) = Cardinality(Included(run[r]))

\* a run sent the file of a candidate that came after a dropped one
C8_Witness ==
  \E r \in Runs : \E i, j \in 1..Len(run[r].allLinks) :
    /\ design = "multi"
    /\ run[r].sendCall.called
    /\ i < j
    /\ run[r].outcome[i] = "discarded"
    /\ run[r].outcome[j] = "included"
    /\ Len(run[r].sendCall.files) = 1

\* C9: the policy a guild is given at its first reference is the default as
\* the module defines it, and no command changes the default.
C9_FirstReferenceGetsDefault ==
  /\ DEFAULT_GUILD_CONFIG = InitialDefault
  /\ \A g \in Guilds : materialised[g] \subseteq {InitialDefault}

\* the persisted list of a guild agrees with what was last reported for a value
C10_Kept(e, field) ==
  /\ configFile.exists
  /\ e[1] \in DOMAIN configFile.guilds
  /\ (e[3] = "added") =
       (\E k \in 1..Len(configFile.guilds[e[1]][field]) :
          configFile.guilds[e[1]][field][k] = e[2])

C11_LoadNeverRaises ==
  /\ lastReply.reply # "raised"
  /\ \A r \in Runs :
       (run[r].pc # "arrived" /\ ~run[r].bot /\ run[r].guild # NoGuild) =>
         /\ run[r].pc # "raised"
         /\ configFile.exists /\ configFile.shape = "doc"
         /\ run[r].guild \in DOMAIN configFile.guilds

\* C15: no error escapes the message handler: at every moment a handler is
\* not yet started, waiting at one of its awaits, or has completed normally.
C15_NoErrorEscapes ==
  \A r \in Runs :
    run[r].pc \in {"arrived", "head", "get", "write", "delete", "fetchWebhooks",
                   "createWebhook", "send", "done"}

\* the tokens of a stored value that are lower-case names
C13_Names == {"4cdn", "org", "evil", "com", "jpg", "jpeg", "png", "gif", "webm", "mp4", "exe"}

\* C13: every domain stored for a guild is lower-case and has no scheme and
\* no path (it is a non-empty sequence of lower-case labels), and every
\* stored extension is a "." followed by a lower-case name.
C13_StoredValuesNormalised ==
  configFile.exists =>
    \A g \in DOMAIN configFile.guilds :
      /\ \A k \in 1..Len(configFile.guilds[g].allowedDomains) :
           LET d == configFile.guilds[g].allowedDomains[k]
           IN d # <<>> /\ \A n \in 1..Len(d) : d[n] \in C13_Names
      /\ \A k \in 1..Len(configFile.guilds[g].allowedExtensions) :
           LET e == configFile.guilds[g].allowedExtensions[k]
           IN Len(e) = 2 /\ e[1] = "." /\ e[2] \in C13_Names

\* no value occurs twice in the list
C12_NoDuplicates(list) == \A i, j \in 1..Len(list) : list[i] = list[j] => i = j

\* the policy a command finds for its guild: the stored one, or the default
\* an entry is created from
C12_Found(g) ==
  IF configFile.exists /\ g \in DOMAIN configFile.guilds
  THEN configFile.guilds[g] ELSE DEFAULT_GUILD_CONFIG

\* the list a command is about
C12_List(cfg, cmd) ==
  IF cmd \in {"allowdomain", "removedomain"} THEN cfg.allowedDomains
  ELSE cfg.allowedExtensions

\* a command step that adds a value already in the list or removes one that
\* is not: the reply says so, the list stays as it was and saveGlobalConfig
\* is called only when getGuildConfig created the guild's entry
C12_NothingToDo ==
  LET g == lastReply'.guild
      cmd == lastReply'.cmd
      present == \E k \in 1..Len(C12_List(C12_Found(g), cmd)) :
                   C12_List(C12_Found(g), cmd)[k] = lastReply'.arg
  IN (cmdsLeft' # cmdsLeft /\ cmd \in {"allowdomain", "removedomain", "allowext", "removeext"}
        /\ present = (cmd \in {"allowdomain", "allowext"})) =>
       /\ lastReply'.reply =
            (IF cmd \in {"allowdomain", "allowext"}
             THEN "already allowed" ELSE "was not in the list")
       /\ configFile'.guilds[g] = C12_Found(g)
       /\ lastReply'.writes = (IF lastReply'.created THEN 1 ELSE 0)
       /\ lastReply'.created = ~(configFile.exists /\ g \in DOMAIN configFile.guilds)

\* C12: after any sequence of commands no domain and no extension occurs
\* twice in a guild's stored lists; adding a value already present replies
\* "already allowed" and removing a value not present replies "was not in
\* the list", and then the stored list is unchanged and the command's own
\* change causes no write of the file.
C12_Idempotent ==
  /\ [](configFile.exists =>
          \A g \in DOMAIN configFile.guilds :
            /\ C12_NoDuplicates(configFile.guilds[g].allowedDomains)
            /\ C12_NoDuplicates(configFile.guilds[g].allowedExtensions))
  /\ [][C12_NothingToDo]_vars

\* a value was added and the same command was given again
C12_Witness ==
  /\ lastReply.cmd = "allowdomain"
  /\ lastReply.reply = "already allowed"
  /\ lastReply.writes = 0
  /\ <<lastReply.guild, lastReply.arg, "added">> \in acked.domains

\* every candidate of the message has ended: all of them in the multi-link
\* handler, the first match in the single-link handler
C14_CandidatesEnded(rec) ==
  IF design = "multi"
  THEN \A i \in 1..Len(rec.allLinks) :
         rec.outcome[i] \in {"rejected", "discarded", "included"}
  ELSE rec.allLinks # <<>> /\ rec.outcome[1] = "included"

\* C14: message.delete() is called only after every candidate has ended
\* and webhook.send only after message.delete() has settled; a failed delete
\* is swallowed: the handler goes on to the webhook lookup and the send call
\* carries the remaining text and every staged file.
C14_DeleteFailureSwallowed ==
  /\ [](\A r \in Runs :
          /\ run[r].deleteResult # "none" => C14_CandidatesEnded(run[r])
          /\ run[r].sendCall.called =>
               /\ run[r].deleteResult \in {"ok", "failed"}
               /\ run[r].sendCall.files = run[r].newFiles
               /\ run[r].sendCall.content = run[r].newContent)
  /\ [][\A r \in Runs :
          (run[r].pc = "delete" /\ run'[r].pc # "delete") =>
            /\ run'[r].pc = "fetchWebhooks"
            /\ run'[r].newFiles = run[r].newFiles
            /\ run'[r].newContent = run[r].newContent]_vars

\* a run whose delete failed sent its staged file
C14_Witness ==
  \E r \in Runs :
    /\ run[r].deleteResult = "failed"
    /\ run[r].sendCall.called
    /\ Len(run[r].sendCall.files) >= 1

\* the probed length as the claim reads an answer: the content-length of a
\* successful response, 0 for a failed request, a non-success response or a
\* response without a usable content-length
C16_Length(p) == IF p.kind = "ok" THEN p.len ELSE 0

C17_Failed(rec) == rec.outcome # <<>> /\ rec.outcome[1] = "discarded"

\* C17: in the single-link handler a failure before the republish step ends
\* the run: message.delete() and webhook.send are never called, and the
\* cleanup runs in the step that handles the failure, leaving no temporary
\* file.
C17_SingleFailureAborts ==
  /\ [](design = "single" =>
          \A r \in Runs :
            C17_Failed(run[r]) =>
              /\ run[r].pc = "done"
              /\ run[r].deleteResult = "none"
              /\ ~run[r].sendCall.called
              /\ ~(\E f \in tempFiles : f.owner = r))
  /\ [][design = "single" =>
          \A r \in Runs :
            (C17_Failed(run'[r]) /\ ~C17_Failed(run[r])) => tempFiles' = {}]_vars

\* a single-link run that failed after it had staged its file
C17_Witness ==
  /\ design = "single"
  /\ \E r \in Runs :
       /\ C17_Failed(run[r])
       /\ 1 \in run[r].streams
       /\ run[r].opened
       /\ run[r].pc = "done"

\* C18: the content a single-link run sends is the original content with
\* the first CDN match, the one link that was staged, cut out and trimmed;
\* the text of every other match stays.
C18_OnlyStagedLinkRemoved ==
  \A r \in Runs :
    (design = "single" /\ run[r].sendCall.called) =>
      run[r].sendCall.content =
        Trim(RemoveRanges(run[r].content, <<CdnMatches(run[r].content, 1)[1]>>))

\* C19: a message whose author is a bot, the bot's own replacement message
\* included, never starts a run: its handler returns without loading the
\* policy, without a request, a delete or a send.  So there are never more
\* deletes or sends than messages of users.
C19_BotMessagesIgnored ==
  /\ \A r \in Runs :
       run[r].bot =>
         /\ run[r].pc \in {"arrived", "done"}
         /\ run[r].allLinks = <<>> /\ run[r].cfgOwn = NoPolicy /\ ~run[r].cfgAlias
         /\ Contacted(run[r]) = {}
         /\ run[r].deleteResult = "none"
         /\ ~run[r].sendCall.called
  /\ Cardinality({r \in Runs : run[r].sendCall.called})
       <= Cardinality({r \in Runs : ~run[r].bot})
  /\ Cardinality({r \in Runs : run[r].deleteResult # "none"})
       <= Cardinality({r \in Runs : ~run[r].bot})

\* the replacement message came back, still holding a link, and its handler
\* has returned
C19_Witness ==
  \E r, q \in Runs :
    /\ run[r].echoed /\ ~run[r].bot
    /\ run[q].bot /\ run[q].pc = "done"
    /\ run[q].content = run[r].sendCall.content
    /\ \E k \in 1..Len(run[q].content) : run[q].content[k] = "H"

\* the link passes both checks of the policy
C20_Allowed(cfg, link) ==
  /\ \E k \in 1..Len(cfg.allowedDomains) :
       cfg.allowedDomains[k] \in {Host(link), RootDomain(Host(link))}
  /\ \E k \in 1..Len(cfg.allowedExtensions) : cfg.allowedExtensions[k] = ExtName(link)

\* C20: a candidate of a multi-link run is probed, fetched or included only
\* if the policy allowed it as the policy was when the run loaded it, and it
\* is rejected only if that policy did not allow it: commands handled while
\* the run waits change nothing for its remaining candidates.
C20_PolicyOfRunStart ==
  \A r \in Runs : \A i \in 1..Len(run[r].allLinks) :
    design = "multi" =>
      /\ (i \in Contacted(run[r]) \/ run[r].outcome[i] = "included")
           => C20_Allowed(run[r].cfgOwn, run[r].allLinks[i])
      /\ run[r].outcome[i] = "rejected"
           => ~C20_Allowed(run[r].cfgOwn, run[r].allLinks[i])

====
